---- MODULE Spec2Model ----
(***************************************************************************)
(* Model of dockq_complex.py: chain extraction (parse_chain, get_seq),     *)
(* contact detection (has_contact) and the chain-correspondence pipeline   *)
(* of cal_dockq_pdb with its command-line entry point.                     *)
(*                                                                         *)
(* Three specifications share the module:                                  *)
(*   SpecContact  has_contact applied to pairs of heavy-atom pools         *)
(*   SpecParse    parse_chain applied (once or twice) to a chain           *)
(*   Spec         cal_dockq_pdb step by step, then __main__                *)
(* Coordinates are points of the integer lattice (unit: Angstrom), on      *)
(* which the floating-point arithmetic of the source is exact.             *)
(***************************************************************************)
EXTENDS Integers, Sequences, FiniteSets, TLC

VARIABLES
  \* has_contact
  hc_chain1, hc_chain2, hc_out, hc_rev,
  \* parse_chain
  ps_chain, ps_orig, ps_out, ps_first, ps_calls,
  \* cal_dockq_pdb / __main__
  pc, pred_seqs, pred_ca, truth_pdbs, truth_ca, df_pred, df, x_mean_pred, trial,
  pm_best, rmsd, rmsd_min, trials, calls, match_table, dockqls, ret, main_out

hc_vars == <<hc_chain1, hc_chain2, hc_out, hc_rev>>
ps_vars == <<ps_chain, ps_orig, ps_out, ps_first, ps_calls>>
cd_vars == <<pc, pred_seqs, pred_ca, truth_pdbs, truth_ca, df_pred, df, x_mean_pred,
             trial, pm_best, rmsd, rmsd_min, trials, calls, match_table, dockqls, ret,
             main_out>>
vars == <<hc_vars, ps_vars, cd_vars>>

\* ------------------------------------------------------------------------
\* Bounds of the model
\* ------------------------------------------------------------------------
MaxAtoms == 2
MaxRes == 3
MaxNum == 4
MaxChains == 2

\* ------------------------------------------------------------------------
\* Generic helpers
\* ------------------------------------------------------------------------
SeqsUpTo(S, n) == UNION {[1..k -> S] : k \in 1..n}

Range(a, b) == [i \in 1..(IF b > a THEN b - a ELSE 0) |-> a + i - 1]

RECURSIVE Repeat(_, _)
Repeat(x, n) == IF n <= 0 THEN <<>> ELSE <<x>> \o Repeat(x, n - 1)

PyBool(b) == IF b THEN "True" ELSE "False"

SetMin(S) == CHOOSE m \in S : \A x \in S : m <= x

\* ------------------------------------------------------------------------
\* has_contact (Contact Selector)
\* ------------------------------------------------------------------------
ContactThreshold == 5

\* Atom positions used for the pools: (3,4,0) and (0,0,5) are at distance
\* exactly 5 of the origin, (5,1,0) at sqrt(26), (9,0,0) far away.
PointPool == {<<0, 0, 0>>, <<3, 4, 0>>, <<5, 1, 0>>, <<0, 0, 5>>, <<9, 0, 0>>}

\* The M x 3 arrays has_contact is applied to, M = 0 included.
Pools == {<<>>} \cup SeqsUpTo(PointPool, MaxAtoms)

\* ((a - b) ** 2).sum(-1)
SqNorm(a, b) == (a[1] - b[1]) * (a[1] - b[1]) + (a[2] - b[2]) * (a[2] - b[2])
                + (a[3] - b[3]) * (a[3] - b[3])

\* np.sqrt(s) <= t and np.sqrt(s) < t for s, t >= 0
SqrtLeq(s, t) == s <= t * t
SqrtLt(s, t) == s < t * t

\* d[i][j] = chain1[i] - chain2[j]; dist = sqrt((d ** 2).sum(-1))
DistMatrixSq(chain1, chain2) ==
  [i \in 1..Len(chain1) |-> [j \in 1..Len(chain2) |-> SqNorm(chain1[i], chain2[j])]]

\* has_contact with dist < 5 in place of dist <= 5.
has_contact_strict(chain1, chain2) ==
  LET dist == DistMatrixSq(chain1, chain2)
  IN \E i \in 1..Len(chain1) : \E j \in 1..Len(chain2) :
        SqrtLt(dist[i][j], ContactThreshold)

has_contact(chain1, chain2) ==
  LET dist == DistMatrixSq(chain1, chain2)
  IN \E i \in 1..Len(chain1) : \E j \in 1..Len(chain2) :
        SqrtLeq(dist[i][j], ContactThreshold)

\* ------------------------------------------------------------------------
\* get_seq / parse_chain (Residue Sequence & Coordinate Extractor)
\* ------------------------------------------------------------------------
THREE_TO_ONE ==
  [r \in {"VAL", "ILE", "LEU", "GLU", "GLN", "ASP", "ASN", "HIS", "TRP", "PHE",
          "TYR", "ARG", "LYS", "SER", "THR", "MET", "ALA", "GLY", "PRO", "CYS",
          "UNK", "SEC", "PYL"} |->
     CASE r = "VAL" -> "V" [] r = "ILE" -> "I" [] r = "LEU" -> "L"
       [] r = "GLU" -> "E" [] r = "GLN" -> "Q" [] r = "ASP" -> "D"
       [] r = "ASN" -> "N" [] r = "HIS" -> "H" [] r = "TRP" -> "W"
       [] r = "PHE" -> "F" [] r = "TYR" -> "Y" [] r = "ARG" -> "R"
       [] r = "LYS" -> "K" [] r = "SER" -> "S" [] r = "THR" -> "T"
       [] r = "MET" -> "M" [] r = "ALA" -> "A" [] r = "GLY" -> "G"
       [] r = "PRO" -> "P" [] r = "CYS" -> "C" [] r = "UNK" -> "X"
       [] r = "SEC" -> "U" [] r = "PYL" -> "O"]

\* Element of an atom, by its name (hydrogens are named H*).
Element(at) == IF at \in {"H", "HA"} THEN "H" ELSE IF at = "N" THEN "N"
               ELSE IF at = "O" THEN "O" ELSE "C"

HasAtom(res, name) == \E k \in 1..Len(res.atoms) : res.atoms[k] = name

\* The residues a chain of the input can hold: het is res.id[0] != ' '.
\* A standard residue, one without side chain, one whose anchor atom is
\* missing, a water, one of a name THREE_TO_ONE does not hold, an UNK.
ALA == [het |-> FALSE, resname |-> "ALA", atoms |-> <<"N", "CA", "CB", "HA">>]
GLY == [het |-> FALSE, resname |-> "GLY", atoms |-> <<"N", "CA">>]
SER_noCA == [het |-> FALSE, resname |-> "SER", atoms |-> <<"N", "O">>]
HOH == [het |-> TRUE, resname |-> "HOH", atoms |-> <<"O">>]
ASX == [het |-> FALSE, resname |-> "ASX", atoms |-> <<"CA", "CB">>]
UNK == [het |-> FALSE, resname |-> "UNK", atoms |-> <<"CA", "CB">>]

ResKinds == {ALA, GLY, SER_noCA, HOH, ASX, UNK}

MkRes(kind, num) ==
  [het |-> kind.het, num |-> num, resname |-> kind.resname, atoms |-> kind.atoms]

ResPool == {MkRes(k, n) : k \in ResKinds, n \in 0..MaxNum}

\* Chains as the structure reader delivers them: residue numbers ascending.
Chains ==
  {c \in SeqsUpTo(ResPool, MaxRes) : \A i \in 1..(Len(c) - 1) : c[i].num < c[i + 1].num}

\* get_seq(obj), obj a chain: its residues in child_list order.
get_seq(children) ==
  [i \in 1..Len(children) |->
     IF HasAtom(children[i], "CA")
     THEN (IF children[i].resname \in DOMAIN THREE_TO_ONE
           THEN THREE_TO_ONE[children[i].resname] ELSE "X")
     ELSE "X"]

\* The row [0, 0, 0] that cals gets for a gap or a residue without anchor.
ZeroRow == <<0, "zero">>

\* The inner loop over res.get_atoms() of one residue with resname != 'X':
\* CA goes to cals, every other non-hydrogen atom to heavls.
RECURSIVE atoms_loop(_, _, _)
atoms_loop(res, k, acc) ==
  IF k > Len(res.atoms) THEN acc
  ELSE LET at == res.atoms[k]
       IN atoms_loop(res, k + 1,
            IF at = "CA"
            THEN [acc EXCEPT !.cals = Append(@, <<res.num, at>>)]
            ELSE IF Element(at) # "H"
                 THEN [acc EXCEPT !.heavls = Append(@, <<res.num, at>>)]
                 ELSE acc)

\* The loop over chain.get_residues() of parse_chain.
RECURSIVE parse_loop(_, _, _)
parse_loop(children, i, acc) ==
  IF acc.status # "ok" \/ i > Len(children) THEN acc
  ELSE
    LET res == children[i] IN
    IF res.het THEN parse_loop(children, i + 1, acc)
    ELSE
      LET res_idx == res.num
          delta_idx == res_idx - acc.last_res_idx
          gaps == Range(acc.last_res_idx + 1, res_idx)
          fill == IF delta_idx # 1 THEN delta_idx - 1 ELSE 0
          a1 == [acc EXCEPT !.gap_positions = @ \o gaps,
                            !.seq = @ \o Repeat("X", fill),
                            !.cals = @ \o Repeat(ZeroRow, fill),
                            !.last_res_idx = res_idx]
      IN IF HasAtom(res, "CA") /\ res.resname \notin DOMAIN THREE_TO_ONE
         THEN [a1 EXCEPT !.status = "KeyError"]
         ELSE
           LET resname == IF HasAtom(res, "CA") THEN THREE_TO_ONE[res.resname] ELSE "X"
               a2 == [a1 EXCEPT !.seq = Append(@, resname)]
               a3 == IF resname = "X"
                     THEN [a2 EXCEPT !.cals = Append(@, ZeroRow)]
                     ELSE atoms_loop(res, 1, a2)
           IN parse_loop(children, i + 1, a3)

\* chain.insert(pos, entity): child_list[pos:pos] = [entity], pos 0-indexed.
ListInsert(children, pos, x) ==
  LET p == IF pos > Len(children) THEN Len(children) ELSE pos
  IN SubSeq(children, 1, p) \o <<x>> \o SubSeq(children, p + 1, Len(children))

UnkResidue(gap_position) ==
  [het |-> FALSE, num |-> gap_position, resname |-> "UNK", atoms |-> <<>>]

RECURSIVE insert_gaps(_, _, _)
insert_gaps(children, gap_positions, k) ==
  IF k > Len(gap_positions) THEN children
  ELSE insert_gaps(ListInsert(children, gap_positions[k] - 1,
                              UnkResidue(gap_positions[k])),
                   gap_positions, k + 1)

ParseStart ==
  [status |-> "ok", seq |-> <<>>, cals |-> <<>>, heavls |-> <<>>,
   last_res_idx |-> 0, gap_positions |-> <<>>]

\* parse_chain(chain): the values returned (or the exception raised) and the
\* chain as the call leaves it.
parse_chain(children) ==
  LET acc == parse_loop(children, 1, ParseStart) IN
  IF acc.status # "ok"
  THEN [status |-> acc.status, seq |-> acc.seq, cals |-> acc.cals, mask |-> <<>>,
        heavls |-> acc.heavls, chain |-> children]
  ELSE IF Len(acc.seq) # Len(acc.cals)
  THEN [status |-> "AssertionError", seq |-> acc.seq, cals |-> acc.cals,
        mask |-> <<>>, heavls |-> acc.heavls, chain |-> children]
  ELSE
    LET mask == [i \in 1..Len(acc.seq) |-> acc.seq[i] # "X"]
        filled == insert_gaps(children, acc.gap_positions, 1)
    IN [status |-> IF get_seq(filled) = acc.seq THEN "ok" ELSE "AssertionError",
        seq |-> acc.seq, cals |-> acc.cals, mask |-> mask,
        heavls |-> acc.heavls, chain |-> filled]

\* ------------------------------------------------------------------------
\* cal_dockq_pdb: numbers, structures, tables and the permutation solver
\* ------------------------------------------------------------------------
\* The structures are collinear: residue number n of a chain with origin o
\* has all its atoms at (o + n - 1, 0, 0). Coordinates are then integers and
\* centroids fractions, kept as (sum, count); values that the source only
\* compares with each other are kept on their common denominator.
\*
\* A floating-point value: an ordinary number, one of the two 1e9-sized
\* constants ("big", far above every number a structure file can give), or
\* NaN (the mean of an empty slice).
Num(v) == [kind |-> "num", v |-> v]
Big(v) == [kind |-> "big", v |-> v]
NaN == [kind |-> "nan", v |-> 0]

\* a < b on floats: False as soon as one side is NaN
FloatLt(a, b) ==
  /\ a.kind # "nan" /\ b.kind # "nan"
  /\ \/ a.kind = b.kind /\ a.v < b.v
     \/ a.kind = "num" /\ b.kind = "big"

\* 1e9: the distance written over a chosen row, and the start of rmsd_min
Removed == 1000000000
RmsdStart == 1000000000
\* |(1e9, 1e9, 1e9) - c| for a centroid c of a structure file: sqrt(3) * 1e9
SentinelDist == 1732050807

\* Where a chain may start: two chains of the same origin are in contact,
\* two chains of different origins are more than 5 apart.
Origins == {0, 6}

\* The chains the structures are made of, as the reader delivers them; each
\* is parsed by parse_chain. Sequences: "A", "G", "X" (no anchor), "AA".
ChainPool ==
  { <<MkRes(ALA, 1)>>, <<MkRes(GLY, 1)>>, <<MkRes(SER_noCA, 1)>>,
    <<MkRes(ALA, 1), MkRes(ALA, 2)>> }

\* A chain placed in space. None of the atoms of the chain without anchor is
\* ever read, so it is placed at the origin only.
PlacedChains ==
  {pcn \in [residues : ChainPool, origin : Origins] :
     pcn.origin = 0 \/ \E i \in 1..Len(pcn.residues) : HasAtom(pcn.residues[i], "CA")}

Structures == SeqsUpTo(PlacedChains, MaxChains)

\* Coordinate of a row of cals, and of an entry of heavls.
ca_pos(out, origin) ==
  [i \in 1..Len(out.cals) |->
     IF out.cals[i] = ZeroRow THEN 0 ELSE origin + out.cals[i][1] - 1]

heav_pos(out, origin) ==
  [i \in 1..Len(out.heavls) |-> <<origin + out.heavls[i][1] - 1, 0, 0>>]

\* mask.sum()
RECURSIVE CountTrue(_, _)
CountTrue(mask, k) ==
  IF k > Len(mask) THEN 0
  ELSE (IF mask[k] THEN 1 ELSE 0) + CountTrue(mask, k + 1)

\* arr[np.pad(mask, (0, len(arr) - len(mask)))] for len(arr) >= len(mask),
\* and arr[mask] for equal lengths
RECURSIVE Masked(_, _, _)
Masked(arr, mask, k) ==
  IF k > Len(arr) \/ k > Len(mask) THEN <<>>
  ELSE (IF mask[k] THEN <<arr[k]>> ELSE <<>>) \o Masked(arr, mask, k + 1)

RECURSIVE Sum(_, _)
Sum(xs, k) == IF k > Len(xs) THEN 0 ELSE xs[k] + Sum(xs, k + 1)

\* chain_dict and df_pred: the predicted chains grouped by identical
\* sequence, groups in order of first occurrence, members in chain order.
RECURSIVE group_chains(_, _, _)
group_chains(seqs, k, groups) ==
  IF k > Len(seqs) THEN groups
  ELSE IF \E g \in 1..Len(groups) : groups[g].pred_seq = seqs[k]
       THEN LET g == CHOOSE g \in 1..Len(groups) : groups[g].pred_seq = seqs[k]
            IN group_chains(seqs, k + 1, [groups EXCEPT ![g].pred_cid = Append(@, k)])
       ELSE group_chains(seqs, k + 1,
                         Append(groups, [pred_cid |-> <<k>>, pred_seq |-> seqs[k]]))

build_df_pred(seqs) ==
  LET groups == group_chains(seqs, 1, <<>>)
  IN [g \in 1..Len(groups) |->
        [pred_cid |-> groups[g].pred_cid, seq_len |-> Len(groups[g].pred_seq),
         pred_seq |-> groups[g].pred_seq, num_chains |-> Len(groups[g].pred_cid)]]

\* flag_match of the loop over zip(row.pred_seq, seq)
flag_match(pred_seq, seq) ==
  LET n == IF Len(pred_seq) < Len(seq) THEN Len(pred_seq) ELSE Len(seq)
  IN \A p \in 1..n : pred_seq[p] = seq[p] \/ seq[p] = "X" \/ pred_seq[p] = "X"

\* One row of df_pred against one ground-truth sequence.
row_matches(row, seq) == ~(row.seq_len < Len(seq)) /\ flag_match(row.pred_seq, seq)

\* The rows ls gets for ground-truth chain i, over df_pred.iterrows().
RECURSIVE match_rows(_, _, _, _)
match_rows(dfp, g, i, tca) ==
  IF g > Len(dfp) THEN <<>>
  ELSE (IF row_matches(dfp[g], tca.seq)
        THEN <<[pred_cid |-> dfp[g].pred_cid, seq_len |-> dfp[g].seq_len,
                num_chains |-> dfp[g].num_chains, truth_cid |-> i,
                true_seq_len |-> CountTrue(tca.mask, 1),
                pred_seq |-> dfp[g].pred_seq, truth_seq |-> tca.seq]>>
        ELSE <<>>) \o match_rows(dfp, g + 1, i, tca)

RECURSIVE build_ls(_, _, _)
build_ls(dfp, tcas, i) ==
  IF i > Len(tcas) THEN <<>>
  ELSE match_rows(dfp, 1, i, tcas[i]) \o build_ls(dfp, tcas, i + 1)

\* The index labels of the rows: 0, 1, ... in the order they were appended.
with_labels(ls) ==
  [n \in 1..Len(ls) |->
     [label |-> n - 1, pred_cid |-> ls[n].pred_cid, seq_len |-> ls[n].seq_len,
      num_chains |-> ls[n].num_chains, truth_cid |-> ls[n].truth_cid,
      true_seq_len |-> ls[n].true_seq_len, pred_seq |-> ls[n].pred_seq,
      truth_seq |-> ls[n].truth_seq]]

\* df.sort_values(by=['num_chains', 'true_seq_len'], ascending=[True, False]):
\* a stable sort that keeps each row's index label.
RowLeq(a, b) ==
  \/ a.num_chains < b.num_chains
  \/ a.num_chains = b.num_chains /\ a.true_seq_len >= b.true_seq_len

RECURSIVE insert_sorted(_, _)
insert_sorted(sorted, row) ==
  IF sorted = <<>> THEN <<row>>
  ELSE IF RowLeq(Head(sorted), row)
       THEN <<Head(sorted)>> \o insert_sorted(Tail(sorted), row)
       ELSE <<row>> \o sorted

RECURSIVE sort_values(_, _, _)
sort_values(rows, k, acc) ==
  IF k > Len(rows) THEN acc
  ELSE sort_values(rows, k + 1, insert_sorted(acc, rows[k]))

\* series[0] on a column of the sorted table: the row whose LABEL is 0.
RowLabel0(d) == d[CHOOSE n \in 1..Len(d) : d[n].label = 0]

\* df.pred_cid[df.truth_cid == truth_cid].values[0]: the group of the first
\* row, in table order, of that ground-truth chain.
FirstRowOf(d, truth_cid) ==
  d[SetMin({n \in 1..Len(d) : d[n].truth_cid = truth_cid})]

InGroup(pred_cid, group) == \E m \in 1..Len(group) : group[m] = pred_cid

\* get_mean_pred: the sentinel for a predicted chain outside the consulted
\* group, else the centroid (sum, n) of the masked predicted anchors. The
\* lookup .values[0] raises IndexError for a chain without row.
get_mean_pred(pred_ca_pos, mask, pred_cid, truth_cid, d) ==
  IF {n \in 1..Len(d) : d[n].truth_cid = truth_cid} = {}
  THEN [kind |-> "IndexError", sum |-> 0, n |-> 0]
  ELSE IF ~InGroup(pred_cid, FirstRowOf(d, truth_cid).pred_cid)
  THEN [kind |-> "sentinel", sum |-> 0, n |-> 0]
  ELSE LET sel == Masked(pred_ca_pos, mask, 1)
       IN [kind |-> "mean", sum |-> Sum(sel, 1), n |-> Len(sel)]

\* x_mean_pred[k][l], k a predicted chain, l a row of df (truth_cids order)
build_x_mean_pred(pca, tcas, d) ==
  [k \in 1..Len(pca) |->
     [l \in 1..Len(d) |->
        get_mean_pred(pca[k], tcas[d[l].truth_cid].mask, k, d[l].truth_cid, d)]]

Abs(x) == IF x < 0 THEN -x ELSE x

\* kabsch_rotation on collinear points: the covariance matrix has the single
\* entry cov. U = V @ W maps the axis of the points onto itself, reversed
\* when cov < 0; for cov = 0 the factors of the zero matrix are identities.
kabsch_rotation(cov) == IF cov < 0 THEN -1 ELSE 1

\* Covariance of the centred points, scaled by n * n.
RECURSIVE Covariance(_, _, _, _, _, _)
Covariance(src, tgt, n, s_sum, t_sum, k) ==
  IF k > Len(src) THEN 0
  ELSE (n * src[k] - s_sum) * (n * tgt[k] - t_sum)
       + Covariance(src, tgt, n, s_sum, t_sum, k + 1)

\* get_optimal_transform(src_atoms, tgt_atoms, mask): rotation rot (+1/-1)
\* and translation tnum / tden. use_mask = FALSE is the call with mask=None.
get_optimal_transform(src_atoms, tgt_atoms, mask, use_mask) ==
  IF Len(src_atoms) # Len(tgt_atoms)
  THEN [status |-> "AssertionError", rot |-> 1, tnum |-> 0, tden |-> 1]
  ELSE
    LET empty == use_mask /\ CountTrue(mask, 1) = 0
        src == IF empty THEN <<0>> ELSE IF use_mask THEN Masked(src_atoms, mask, 1)
               ELSE src_atoms
        tgt == IF empty THEN <<0>> ELSE IF use_mask THEN Masked(tgt_atoms, mask, 1)
               ELSE tgt_atoms
        n == Len(src)
        rot == kabsch_rotation(Covariance(src, tgt, n, Sum(src, 1), Sum(tgt, 1), 1))
    IN [status |-> "ok", rot |-> rot,
        tnum |-> Sum(tgt, 1) - rot * Sum(src, 1), tden |-> n]

\* (truth_ca[i][0][truth_ca[i][1]] @ r + t).mean(0): the fraction num / den
mean_truth(ca, mask, tr) ==
  LET sel == Masked(ca, mask, 1)
  IN IF Len(sel) = 0 THEN [nan |-> TRUE, num |-> 0, den |-> 1]
     ELSE [nan |-> FALSE, num |-> tr.rot * tr.tden * Sum(sel, 1) + Len(sel) * tr.tnum,
           den |-> Len(sel) * tr.tden]

\* One entry of d_kl. The entries of a column that are ordinary numbers
\* share the denominator xmp.n * xmt.den, which is left out.
Distance(xmp, xmt) ==
  IF xmt.nan THEN NaN
  ELSE IF xmp.kind = "sentinel" THEN Big(SentinelDist)
  ELSE IF xmp.n = 0 THEN NaN
  ELSE Num(Abs(xmp.sum * xmt.den - xmt.num * xmp.n))

\* d_l.argmin(): the first NaN if there is one, else the first minimum
argmin(d_kl, l) ==
  LET K == 1..Len(d_kl)
      nans == {k \in K : d_kl[k][l].kind = "nan"}
  IN IF nans # {} THEN SetMin(nans)
     ELSE SetMin({k \in K : \A j \in K : ~FloatLt(d_kl[j][l], d_kl[k][l])})

\* d_kl[best_idx, :] = 1e9
overwrite_row(d_kl, best_idx) ==
  [d_kl EXCEPT ![best_idx] = [l \in DOMAIN d_kl[best_idx] |-> Big(Removed)]]

RECURSIVE perm_loop(_, _, _, _)
perm_loop(d_kl, l, ncols, p_l) ==
  IF l > ncols THEN p_l
  ELSE LET best_idx == argmin(d_kl, l)
       IN perm_loop(overwrite_row(d_kl, best_idx), l + 1, ncols, Append(p_l, best_idx))

\* find_optimal_permutation; indices of predicted chains count from 1 here
find_optimal_permutation(xm_pred, xm_truth) ==
  LET d_kl == [k \in 1..Len(xm_pred) |->
                 [l \in 1..Len(xm_truth) |-> Distance(xm_pred[k][l], xm_truth[l])]]
  IN perm_loop(d_kl, 1, Len(xm_truth), <<>>)

\* Sum over the points of (rot * (n a - sum a) - (n b - sum b)) ** 2
RECURSIVE SqDeviation(_, _, _, _, _, _, _)
SqDeviation(a, b, n, a_sum, b_sum, rot, k) ==
  IF k > Len(a) THEN 0
  ELSE (rot * (n * a[k] - a_sum) - (n * b[k] - b_sum))
         * (rot * (n * a[k] - a_sum) - (n * b[k] - b_sum))
       + SqDeviation(a, b, n, a_sum, b_sum, rot, k + 1)

\* kabsch_rmsd: sqrt(mean squared deviation + eps) after the optimal
\* superposition, as n ** 3 times the mean squared deviation (n, the number
\* of points, is the same in every anchor trial of a run); NaN without point.
kabsch_rmsd(true_atom_pos, pred_atom_pos) ==
  LET n == Len(true_atom_pos)
      tr == get_optimal_transform(true_atom_pos, pred_atom_pos, <<>>, FALSE)
  IN IF n = 0 THEN NaN
     ELSE Num(SqDeviation(true_atom_pos, pred_atom_pos, n, Sum(true_atom_pos, 1),
                          Sum(pred_atom_pos, 1), tr.rot, 1))

RECURSIVE concat_masked(_, _, _, _, _)
concat_masked(pca, tcas, d, pm, l) ==
  IF l > Len(pm) \/ l > Len(d) THEN [t |-> <<>>, p |-> <<>>]
  ELSE LET rest == concat_masked(pca, tcas, d, pm, l + 1)
           tc == tcas[d[l].truth_cid]
       IN [t |-> Masked(tc.ca, tc.mask, 1) \o rest.t,
           p |-> Masked(pca[pm[l]], tc.mask, 1) \o rest.p]

\* cal_ca_kabsch_rmsd: np.pad raises ValueError for a predicted chain
\* shorter than the mask of the ground-truth chain it is assigned to.
cal_ca_kabsch_rmsd(pca, tcas, d, pm) ==
  IF \E l \in 1..Len(pm) : Len(pca[pm[l]]) < Len(tcas[d[l].truth_cid].mask)
  THEN [status |-> "ValueError", rmsd |-> NaN]
  ELSE LET all == concat_masked(pca, tcas, d, pm, 1)
       IN [status |-> "ok", rmsd |-> kabsch_rmsd(all.t, all.p)]

\* match_table[cid_t] = cid_p on a dict that keeps insertion order
DictSet(mt, t, p) ==
  IF \E n \in 1..Len(mt) : mt[n].t = t
  THEN [n \in 1..Len(mt) |-> IF mt[n].t = t THEN [t |-> t, p |-> p] ELSE mt[n]]
  ELSE Append(mt, [t |-> t, p |-> p])

\* The loop that fills match_table from zip(truth_cids, pred ids[pm_best]),
\* with its assertion that the chosen id is in the consulted group.
RECURSIVE match_loop(_, _, _, _)
match_loop(d, pmb, l, mt) ==
  IF l > Len(d) \/ l > Len(pmb) THEN [status |-> "ok", table |-> mt]
  ELSE LET cid_t == d[l].truth_cid
           cid_p == pmb[l]
           cids_p == FirstRowOf(d, cid_t).pred_cid
       IN IF ~InGroup(cid_p, cids_p)
          THEN [status |-> "AssertionError", table |-> mt]
          ELSE match_loop(d, pmb, l + 1, DictSet(mt, cid_t, cid_p))

\* has_contact on the arrays parse_chain returns: for a chain without heavy
\* atom that is np.array([]), of shape (0,) and not (0, 3), which broadcasts
\* against an (M, 3) array only in first position and only for M = 1.
np_has_contact(chain1, chain2) ==
  IF Len(chain1) = 0 /\ Len(chain2) = 0 THEN "False"
  ELSE IF Len(chain1) = 0 THEN (IF Len(chain2) = 1 THEN "False" ELSE "ValueError")
  ELSE IF Len(chain2) = 0 THEN "ValueError"
  ELSE PyBool(has_contact(chain1, chain2))

\* The pairs (i, j), i < j, of range(n_chains), in loop order.
RECURSIVE pair_list(_, _, _)
pair_list(i, j, n) ==
  IF i > n - 1 THEN <<>>
  ELSE IF j > n THEN pair_list(i + 1, i + 2, n)
  ELSE <<[i |-> i, j |-> j]>> \o pair_list(i, j + 1, n)

\* The double loop over the pairs of match_table; score[n] is what
\* calc_DockQ returns for the n-th pair. Adding two chains of the same id to
\* model_p raises PDBConstructionException; get_seq of a model of masked
\* chains is the masked sequences one after the other.
RECURSIVE score_loop(_, _, _, _, _, _, _)
score_loop(pairs, n, mt, pseqs, tcas, score, ls) ==
  IF n > Len(pairs) THEN [status |-> "ok", dockqls |-> ls]
  ELSE
    LET cid_ti == mt[pairs[n].i].t
        cid_tj == mt[pairs[n].j].t
        cont == np_has_contact(tcas[cid_ti].heav, tcas[cid_tj].heav)
        cid_pi == mt[pairs[n].i].p
        cid_pj == mt[pairs[n].j].p
        mask_i == tcas[cid_ti].mask
        mask_j == tcas[cid_tj].mask
        seq_t == Masked(tcas[cid_ti].seq, mask_i, 1) \o Masked(tcas[cid_tj].seq, mask_j, 1)
        seq_p == Masked(pseqs[cid_pi], mask_i, 1) \o Masked(pseqs[cid_pj], mask_j, 1)
    IN IF cont = "ValueError" THEN [status |-> "ValueError", dockqls |-> ls]
       ELSE IF cont = "False"
       THEN score_loop(pairs, n + 1, mt, pseqs, tcas, score, ls)
       ELSE IF cid_pi = cid_pj
       THEN [status |-> "PDBConstructionException", dockqls |-> ls]
       ELSE IF seq_t # seq_p THEN [status |-> "AssertionError", dockqls |-> ls]
       ELSE score_loop(pairs, n + 1, mt, pseqs, tcas, score,
                       Append(ls, [pred_i |-> cid_pi, pred_j |-> cid_pj,
                                   DockQ |-> score[n]]))

\* The values calc_DockQ may give for a pair (an external program).
DockQScores == {0, 1}

RECURSIVE SumDockQ(_, _)
SumDockQ(ls, k) == IF k > Len(ls) THEN 0 ELSE ls[k].DockQ + SumDockQ(ls, k + 1)

\* ------------------------------------------------------------------------
\* Idle values of the variables a specification does not use
\* ------------------------------------------------------------------------
NoOut == [status |-> "none", seq |-> <<>>, cals |-> <<>>, mask |-> <<>>,
          heavls |-> <<>>, chain |-> <<>>]

hc_idle == hc_chain1 = <<>> /\ hc_chain2 = <<>> /\ hc_out = "none" /\ hc_rev = "none"

ps_idle == ps_chain = <<>> /\ ps_orig = <<>> /\ ps_out = NoOut /\ ps_first = NoOut
           /\ ps_calls = 0

NoRet == [kind |-> "none", exc |-> "", dockq |-> <<0, 0>>, rmsd |-> NaN]
Raise(e) == [kind |-> "raise", exc |-> e, dockq |-> <<0, 0>>, rmsd |-> NaN]
RetNone == [kind |-> "None", exc |-> "", dockq |-> <<0, 0>>, rmsd |-> NaN]
RetTuple(q, r) == [kind |-> "tuple", exc |-> "", dockq |-> q, rmsd |-> r]

NoCalls == [transform |-> 0, permutation |-> 0, kabsch |-> 0]

cd_idle ==
  /\ pc = "start" /\ pred_seqs = <<>> /\ pred_ca = <<>> /\ truth_pdbs = <<>> /\ truth_ca = <<>>
  /\ df_pred = <<>> /\ df = <<>> /\ x_mean_pred = <<>> /\ trial = 0
  /\ pm_best = <<>> /\ rmsd = NaN /\ rmsd_min = NaN /\ trials = <<>>
  /\ calls = NoCalls /\ match_table = <<>> /\ dockqls = <<>>
  /\ ret = NoRet /\ main_out = "none"

\* ------------------------------------------------------------------------
\* SpecContact: has_contact on two pools, in both argument orders
\* ------------------------------------------------------------------------
InitContact ==
  /\ hc_chain1 \in Pools /\ hc_chain2 \in Pools
  /\ hc_out = "none" /\ hc_rev = "none"
  /\ ps_idle /\ cd_idle

CallHasContact ==
  /\ hc_out = "none"
  /\ hc_out' = PyBool(has_contact(hc_chain1, hc_chain2))
  /\ UNCHANGED <<hc_chain1, hc_chain2, hc_rev>>

CallHasContactSwapped ==
  /\ hc_rev = "none"
  /\ hc_rev' = PyBool(has_contact(hc_chain2, hc_chain1))
  /\ UNCHANGED <<hc_chain1, hc_chain2, hc_out>>

\* ------------------------------------------------------------------------
\* SpecParse: parse_chain on a chain, and once more on the chain it left
\* ------------------------------------------------------------------------
InitParse ==
  /\ ps_chain \in Chains
  /\ ps_orig = ps_chain
  /\ ps_out = NoOut /\ ps_first = NoOut /\ ps_calls = 0
  /\ hc_idle /\ cd_idle

FirstParse ==
  /\ ps_calls = 0
  /\ LET out == parse_chain(ps_chain)
     IN /\ ps_out' = out
        /\ ps_first' = out
        /\ ps_chain' = out.chain
  /\ ps_calls' = 1
  /\ UNCHANGED ps_orig

SecondParse ==
  /\ ps_calls = 1
  /\ ps_out.status = "ok"
  /\ LET out == parse_chain(ps_chain)
     IN /\ ps_out' = out
        /\ ps_chain' = out.chain
  /\ ps_calls' = 2
  /\ UNCHANGED <<ps_orig, ps_first>>

\* ------------------------------------------------------------------------
\* Spec: cal_dockq_pdb, then the command-line entry point
\* ------------------------------------------------------------------------
Init == cd_idle /\ hc_idle /\ ps_idle

\* truth_cids, anchor_truth, anchors_pred (lines 293-296)
truth_cids == [l \in 1..Len(df) |-> df[l].truth_cid]
anchor_truth == RowLabel0(df).truth_cid
anchors_pred == RowLabel0(df).pred_cid

\* Lines 231-248: parse the predicted chains, group them by sequence.
ParsePred ==
  /\ pc = "start"
  /\ \E pred \in Structures :
     \E out \in {[k \in 1..Len(pred) |-> parse_chain(pred[k].residues)]} :
       /\ pred_seqs' = [k \in 1..Len(pred) |-> out[k].seq]
       /\ pred_ca' = [k \in 1..Len(pred) |-> ca_pos(out[k], pred[k].origin)]
       /\ df_pred' = build_df_pred([k \in 1..Len(pred) |-> out[k].seq])
  /\ pc' = "pred_parsed"
  /\ UNCHANGED <<truth_pdbs, truth_ca, df, x_mean_pred, trial, pm_best, rmsd,
                 rmsd_min, trials, calls, match_table, dockqls, ret, main_out>>

\* count_ok without the comparison: the fault the assertion guards against.
count_ok_skip(tp, pca) == TRUE

\* The assertion of line 266.
count_ok(tp, pca) == Len(tp) = Len(pca)

\* Lines 258-266: read the list of ground-truth chains, compare the counts.
LoadTruth ==
  /\ pc = "pred_parsed"
  /\ \E tp \in Structures :
       /\ truth_pdbs' = tp
       /\ IF count_ok(tp, pred_ca)
          THEN pc' = "counted" /\ ret' = ret
          ELSE pc' = "raised" /\ ret' = Raise("AssertionError")
  /\ UNCHANGED <<pred_seqs, pred_ca, truth_ca, df_pred, df, x_mean_pred, trial, pm_best,
                 rmsd, rmsd_min, trials, calls, match_table, dockqls, main_out>>

\* Lines 268-303: parse each ground-truth chain, collect the compatible
\* rows, sort the table; truth_cids[0] raises KeyError on an empty table;
\* else the centroids x_mean_pred are computed.
BuildDf ==
  /\ pc = "counted"
  /\ \E tcas \in {[i \in 1..Len(truth_pdbs) |->
                    LET out == parse_chain(truth_pdbs[i].residues)
                    IN [seq |-> out.seq, ca |-> ca_pos(out, truth_pdbs[i].origin),
                        mask |-> out.mask,
                        heav |-> heav_pos(out, truth_pdbs[i].origin)]]} :
     \E ls \in {with_labels(build_ls(df_pred, tcas, 1))} :
     \E d \in {sort_values(ls, 1, <<>>)} :
       /\ truth_ca' = tcas
       /\ df' = d
       /\ IF d = <<>>
          THEN /\ pc' = "raised" /\ ret' = Raise("KeyError")
               /\ UNCHANGED <<x_mean_pred, trial, pm_best, rmsd_min>>
          ELSE /\ x_mean_pred' = build_x_mean_pred(pred_ca, tcas, d)
               /\ pm_best' = <<>>
               /\ rmsd_min' = Big(RmsdStart)
               /\ trial' = 1
               /\ pc' = "trials" /\ ret' = ret
  /\ UNCHANGED <<pred_seqs, pred_ca, truth_pdbs, df_pred, rmsd, trials, calls,
                 match_table, dockqls, main_out>>

\* Lines 304-316, one pass of the loop over anchors_pred.
Trial ==
  /\ pc = "trials"
  /\ trial <= Len(anchors_pred)
  /\ LET anchor_pred == anchors_pred[trial]
         ca_t == truth_ca[anchor_truth].ca
         mask == truth_ca[anchor_truth].mask
         ca_p == SubSeq(pred_ca[anchor_pred], 1,
                        IF Len(mask) < Len(pred_ca[anchor_pred])
                        THEN Len(mask) ELSE Len(pred_ca[anchor_pred]))
     IN \E tr \in {get_optimal_transform(ca_t, ca_p, mask, TRUE)} :
        IF tr.status # "ok"
        THEN /\ pc' = "raised" /\ ret' = Raise(tr.status)
             /\ calls' = [calls EXCEPT !.transform = @ + 1]
             /\ UNCHANGED <<rmsd, rmsd_min, pm_best, trial, trials>>
        ELSE
          \E x_mean_truth \in
               {[l \in 1..Len(df) |->
                   mean_truth(truth_ca[df[l].truth_cid].ca,
                              truth_ca[df[l].truth_cid].mask, tr)]} :
          \E pm \in {find_optimal_permutation(x_mean_pred, x_mean_truth)} :
          \E kr \in {cal_ca_kabsch_rmsd(pred_ca, truth_ca, df, pm)} :
            IF kr.status # "ok"
            THEN /\ pc' = "raised" /\ ret' = Raise(kr.status)
                 /\ calls' = [calls EXCEPT !.transform = @ + 1, !.permutation = @ + 1]
                 /\ UNCHANGED <<rmsd, rmsd_min, pm_best, trial, trials>>
            ELSE /\ calls' = [transform |-> calls.transform + 1,
                              permutation |-> calls.permutation + 1,
                              kabsch |-> calls.kabsch + 1]
                 /\ rmsd' = kr.rmsd
                 /\ trials' = Append(trials, [anchor_pred |-> anchor_pred, pm |-> pm,
                                              rmsd |-> kr.rmsd])
                 /\ IF FloatLt(kr.rmsd, rmsd_min)
                    THEN rmsd_min' = kr.rmsd /\ pm_best' = pm
                    ELSE UNCHANGED <<rmsd_min, pm_best>>
                 /\ trial' = trial + 1
                 /\ pc' = pc /\ ret' = ret
  /\ UNCHANGED <<pred_seqs, pred_ca, truth_pdbs, truth_ca, df_pred, df, x_mean_pred,
                 match_table, dockqls, main_out>>

\* Lines 319-323: the match table of pm_best.
MatchTable ==
  /\ pc = "trials"
  /\ trial > Len(anchors_pred)
  /\ \E m \in {match_loop(df, pm_best, 1, <<>>)} :
        IF m.status = "ok"
        THEN match_table' = m.table /\ pc' = "matched" /\ ret' = ret
        ELSE match_table' = m.table /\ pc' = "raised" /\ ret' = Raise(m.status)
  /\ UNCHANGED <<pred_seqs, pred_ca, truth_pdbs, truth_ca, df_pred, df, x_mean_pred,
                 trial, pm_best, rmsd, rmsd_min, trials, calls, dockqls, main_out>>

\* Lines 329-367: the contacting pairs and their scores.
Contacts ==
  /\ pc = "matched"
  /\ LET pairs == pair_list(1, 2, Len(match_table))
     IN \E score \in [1..Len(pairs) -> DockQScores] :
          \E s \in {score_loop(pairs, 1, match_table, pred_seqs, truth_ca, score, <<>>)} :
             /\ dockqls' = s.dockqls
             /\ IF s.status = "ok"
                THEN pc' = "scored" /\ ret' = ret
                ELSE pc' = "raised" /\ ret' = Raise(s.status)
  /\ UNCHANGED <<pred_seqs, pred_ca, truth_pdbs, truth_ca, df_pred, df, x_mean_pred,
                 trial, pm_best, rmsd, rmsd_min, trials, calls, match_table, main_out>>

\* Lines 369-381: None without contacting pair, else (mean DockQ, rmsd); the
\* mean is kept as (sum, count), and round(., 5) keeps the order of the
\* deviations of the lattice.
Return ==
  /\ pc = "scored"
  /\ ret' = IF Len(dockqls) = 0 THEN RetNone
            ELSE RetTuple(<<SumDockQ(dockqls, 1), Len(dockqls)>>, rmsd)
  /\ pc' = "returned"
  /\ UNCHANGED <<pred_seqs, pred_ca, truth_pdbs, truth_ca, df_pred, df, x_mean_pred,
                 trial, pm_best, rmsd, rmsd_min, trials, calls, match_table, dockqls,
                 main_out>>

\* Lines 399-400: dockq, rmsd = cal_dockq_pdb(...); print(...)
Main ==
  /\ pc \in {"returned", "raised"}
  /\ main_out' = IF ret.kind = "raise" THEN ret.exc
                 ELSE IF ret.kind = "None" THEN "TypeError"
                 ELSE "printed"
  /\ pc' = "exit"
  /\ UNCHANGED <<pred_seqs, pred_ca, truth_pdbs, truth_ca, df_pred, df, x_mean_pred,
                 trial, pm_best, rmsd, rmsd_min, trials, calls, match_table, dockqls,
                 ret>>

Next ==
  \/ (ParsePred /\ UNCHANGED <<hc_vars, ps_vars>>)
  \/ (LoadTruth /\ UNCHANGED <<hc_vars, ps_vars>>)
  \/ (BuildDf /\ UNCHANGED <<hc_vars, ps_vars>>)
  \/ (Trial /\ UNCHANGED <<hc_vars, ps_vars>>)
  \/ (MatchTable /\ UNCHANGED <<hc_vars, ps_vars>>)
  \/ (Contacts /\ UNCHANGED <<hc_vars, ps_vars>>)
  \/ (Return /\ UNCHANGED <<hc_vars, ps_vars>>)
  \/ (Main /\ UNCHANGED <<hc_vars, ps_vars>>)

Spec == Init /\ [][Next]_vars

NextContact ==
  \/ (CallHasContact /\ UNCHANGED <<ps_vars, cd_vars>>)
  \/ (CallHasContactSwapped /\ UNCHANGED <<ps_vars, cd_vars>>)

SpecContact == InitContact /\ [][NextContact]_vars

NextParse ==
  \/ (FirstParse /\ UNCHANGED <<hc_vars, cd_vars>>)
  \/ (SecondParse /\ UNCHANGED <<hc_vars, cd_vars>>)

SpecParse == InitParse /\ [][NextParse]_vars

\* ------------------------------------------------------------------------
\* Properties
\* ------------------------------------------------------------------------
Injective(f) == \A a, b \in DOMAIN f : a # b => f[a] # f[b]

\* Predicted chain k is a candidate of ground-truth chain t: at least as
\* long, and equal at every position of t where neither side is 'X'.
Compatible(k, t) ==
  /\ Len(pred_seqs[k]) >= Len(truth_ca[t].seq)
  /\ \A i \in 1..Len(truth_ca[t].seq) :
        \/ pred_seqs[k][i] = truth_ca[t].seq[i]
        \/ pred_seqs[k][i] = "X"
        \/ truth_ca[t].seq[i] = "X"

Candidates(t) == {k \in 1..Len(pred_seqs) : Compatible(k, t)}

ValidCount(t) == CountTrue(truth_ca[t].mask, 1)

TableBuilt == pc \in {"trials", "matched", "scored", "returned"}

Returned == ret.kind \in {"None", "tuple"}

\* Every ground-truth chain has candidates, all in one predicted group, and
\* at least one valid residue.
PlainCandidates ==
  \A t \in 1..Len(truth_ca) :
     /\ Cardinality({l \in 1..Len(df) : df[l].truth_cid = t}) = 1
     /\ ValidCount(t) > 0

\* C1: when cal_dockq_pdb returns, the match table gives every ground-truth
\* chain exactly one predicted chain, no predicted chain twice, each from the
\* chain's candidate set; and no anchor trial's permutation holds a predicted
\* index twice. Stated for inputs where each ground-truth chain has a single
\* compatible predicted group and some valid residue.
C1_MatchTableBijection ==
  (truth_ca # <<>> /\ PlainCandidates) =>
     /\ \A n \in 1..Len(trials) : Injective(trials[n].pm)
     /\ Returned =>
          /\ \A t \in 1..Len(truth_ca) :
                Cardinality({n \in 1..Len(match_table) : match_table[n].t = t}) = 1
          /\ \A a, b \in 1..Len(match_table) :
                a # b => match_table[a].p # match_table[b].p
          /\ \A n \in 1..Len(match_table) :
                match_table[n].p \in Candidates(match_table[n].t)

\* C2: the deviation returned is the minimum of the deviations of all
\* anchor trials: no trial has a smaller one, and the first trial that
\* reaches it gave pm_best.
C2_ReturnedDeviationIsMinimum ==
  ret.kind = "tuple" =>
     /\ \A n \in 1..Len(trials) : ~FloatLt(trials[n].rmsd, ret.rmsd)
     /\ ret.rmsd = rmsd_min

\* C3: for every ground-truth chain the solver looks up, the group it
\* consults holds exactly the compatible predicted chains.
C3_ConsultedSetIsCandidateSet ==
  TableBuilt =>
     \A l \in 1..Len(df) :
        {FirstRowOf(df, df[l].truth_cid).pred_cid[m] :
           m \in 1..Len(FirstRowOf(df, df[l].truth_cid).pred_cid)}
        = Candidates(df[l].truth_cid)

CountMismatch == truth_pdbs # <<>> /\ Len(truth_pdbs) # Len(pred_seqs)

\* C5: with unequal chain counts cal_dockq_pdb raises at the count
\* assertion: no superposition, no greedy assignment, no global deviation
\* was computed, no table was built, nothing is returned.
C5_CountMismatchAbortsFirst ==
  CountMismatch =>
     /\ pc \in {"raised", "exit"}
     /\ ret = Raise("AssertionError")
     /\ calls = NoCalls
     /\ truth_ca = <<>> /\ df = <<>> /\ trials = <<>> /\ pm_best = <<>>
     /\ match_table = <<>> /\ dockqls = <<>>

C5_Witness ==
  CountMismatch /\ pc = "exit" /\ main_out = "AssertionError" /\ pred_seqs # <<>>

\* C6: a ground-truth chain without any compatible predicted chain does not
\* make the run fail at the lookup: once the table is built the run goes on
\* to the anchor trials, the centroid lookup gives the sentinel for every
\* predicted chain against that chain, and no trial assigns a chain to it.
C6_NoCandidateIsTolerated ==
  \A t \in 1..Len(truth_ca) :
     Candidates(t) = {} =>
        /\ ~(ret.kind = "raise" /\ ret.exc \in {"KeyError", "IndexError"})
        /\ TableBuilt =>
             \A k \in 1..Len(pred_seqs) :
                get_mean_pred(pred_ca[k], truth_ca[t].mask, k, t, df).kind = "sentinel"
        /\ \A n \in 1..Len(match_table) : match_table[n].t # t

\* C7: without contacting pair the call returns the no-score signal and the
\* entry point that consumes it ends without error.
C7_NoContactIsNotAnError ==
  (ret.kind = "None" /\ pc = "exit") => main_out = "printed"

\* C9: the anchor ground-truth chain has the largest valid residue count of
\* all ground-truth chains.
C9_AnchorHasMostValidResidues ==
  pc = "trials" =>
     \A t \in 1..Len(truth_ca) : ValidCount(anchor_truth) >= ValidCount(t)

\* The squared distances between a point of A and a point of B.
SqDists(A, B) == {SqNorm(A[i], B[j]) : i \in 1..Len(A), j \in 1..Len(B)}

\* The minimum distance between A and B is at most 5 (there is none, hence
\* no contact, when a pool is empty).
MinDistWithin5(A, B) == SqDists(A, B) # {} /\ SetMin(SqDists(A, B)) <= 25

NonConsecutive(ch) == \E i \in 1..(Len(ch) - 1) : ch[i + 1].num # ch[i].num + 1

AscendingNumbers(ch) == \A i \in 1..(Len(ch) - 1) : ch[i].num < ch[i + 1].num

\* C4: on a chain with non-consecutive residue numbers parse_chain returns
\* a sequence as long as the anchor-coordinate array; get_seq on the chain it
\* leaves, and a second parse_chain, give that same sequence; the residue
\* list is in ascending number order. (Chains on which the lookup of an
\* unknown residue name stops the extraction are left to C10.)
C4_GapRoundTrip ==
  (ps_calls >= 1 /\ NonConsecutive(ps_orig) /\ ps_first.status # "KeyError") =>
     /\ ps_first.status = "ok"
     /\ Len(ps_first.seq) = Len(ps_first.cals)
     /\ get_seq(ps_first.chain) = ps_first.seq
     /\ AscendingNumbers(ps_first.chain)
     /\ ps_calls = 2 => (ps_out.status = "ok" /\ ps_out.seq = ps_first.seq)

\* A valid residue: a standard residue with an anchor atom.
ValidResidue(res) ==
  /\ ~res.het
  /\ HasAtom(res, "CA")
  /\ res.resname \in DOMAIN THREE_TO_ONE
  /\ THREE_TO_ONE[res.resname] # "X"

InHeavyPool(out, num, at) ==
  \E k \in 1..Len(out.heavls) : out.heavls[k] = <<num, at>>

\* C10: the heavy-atom pool holds every non-hydrogen atom of every valid
\* residue and no atom of any other residue, and a residue with an anchor
\* atom and an unknown three-letter code gets the substitute symbol instead
\* of stopping the extraction.
C10_HeavyPoolOfValidResidues ==
  ps_calls >= 1 =>
     /\ ps_first.status # "KeyError"
     /\ \A i \in 1..Len(ps_orig) : \A k \in 1..Len(ps_orig[i].atoms) :
           InHeavyPool(ps_first, ps_orig[i].num, ps_orig[i].atoms[k])
           <=> (ValidResidue(ps_orig[i]) /\ Element(ps_orig[i].atoms[k]) # "H")

====
